---- MODULE Spec2Model ----
(***************************************************************************)
(* EnvironmentStoreManager over JsonFileAdapter: hierarchy validation,     *)
(* exact-level operations on the persisted JSON document, and the          *)
(* effective-view merge (overwrite_hierarchy_variables).                   *)
(***************************************************************************)
EXTENDS Integers, Sequences, FiniteSets, TLC

\* file: the JSON file at file_path.  last: the Manager call in progress.
\* nops: the number of writes made.  callers: the position of each
\* concurrent caller inside its adapter method (empty when the one caller
\* runs its calls to completion).
VARIABLES file, last, nops, callers

vars == <<file, last, nops, callers>>

(***************************************************************************)
(* Python values.  Every value carries its Python type, so that a string   *)
(* and a mapping stored under the same kind of key stay distinguishable,   *)
(* exactly as isinstance() distinguishes them in the source.               *)
(***************************************************************************)
PyNone == [type |-> "NoneType"]
PyStr(s) == [type |-> "str", s |-> s]
PyInt(n) == [type |-> "int", n |-> n]
PyBool(b) == [type |-> "bool", b |-> b]
PyList(xs) == [type |-> "list", items |-> xs]
\* A dict keeps insertion order: a sequence of [key, val] entries.
PyDict(entries) == [type |-> "dict", items |-> entries]
EmptyDict == PyDict(<<>>)

\* schemas.Variable: a pydantic model with two str fields.
Variable(n, v) == [type |-> "Variable", name |-> n, value |-> v]

\* Outcome of evaluating a Python expression: a value, or a raised exception.
Ok(v) == [raised |-> "", val |-> v]
Raise(e) == [raised |-> e, val |-> PyNone]

(***************************************************************************)
(* dict primitives (insertion-ordered).                                    *)
(***************************************************************************)
HasKey(d, k) == \E i \in 1..Len(d.items) : d.items[i].key = k
KeyIndex(d, k) == CHOOSE i \in 1..Len(d.items) : d.items[i].key = k
\* d[k]
DictItem(d, k) == d.items[KeyIndex(d, k)].val
\* Mutation: the entry is appended even when the key is present.
DictSetItemAppends(d, k, v) == PyDict(Append(d.items, [key |-> k, val |-> v]))

\* d[k] = v : an existing key keeps its position, a new key is appended.
DictSetItem(d, k, v) ==
    IF HasKey(d, k)
    THEN PyDict([d.items EXCEPT ![KeyIndex(d, k)] = [key |-> k, val |-> v]])
    ELSE PyDict(Append(d.items, [key |-> k, val |-> v]))
\* Mutation: del d[k] leaves the entry in the mapping.
DictDelItemKeepsEntry(d, k) == d
\* del d[k]
DictDelItem(d, k) ==
    LET i == KeyIndex(d, k)
    IN PyDict(SubSeq(d.items, 1, i - 1) \o SubSeq(d.items, i + 1, Len(d.items)))
\* d.get(k, {})
DictGetOrEmpty(d, k) == IF HasKey(d, k) THEN DictItem(d, k) ELSE EmptyDict

(***************************************************************************)
(* str primitives.  The model's strings and their characters; `sub in s`   *)
(* on two str objects is Python's substring test.                          *)
(***************************************************************************)
Chars(s) ==
    CASE s = "a" -> <<"a">>
      [] s = "b" -> <<"b">>
      [] s = "c" -> <<"c">>
      [] s = "v" -> <<"v">>
      [] s = "ab" -> <<"a", "b">>
      [] s = "1" -> <<"1">>
      [] s = "2" -> <<"2">>
      [] OTHER -> <<s>>

StrContains(s, sub) ==
    LET cs == Chars(s)
        cu == Chars(sub)
    IN \E i \in 0..(Len(cs) - Len(cu)) :
          \A j \in 1..Len(cu) : cs[i + j] = cu[j]

\* Code-point order of the model's characters ("1" < "2" < "a" < "b" < "c" < "v").
CharOrd(c) ==
    CASE c = "1" -> 49
      [] c = "2" -> 50
      [] c = "a" -> 97
      [] c = "b" -> 98
      [] c = "c" -> 99
      [] c = "v" -> 118
      [] OTHER -> 0

RECURSIVE SeqLess(_, _)
SeqLess(x, y) ==
    IF y = <<>> THEN FALSE
    ELSE IF x = <<>> THEN TRUE
    ELSE IF CharOrd(Head(x)) # CharOrd(Head(y)) THEN CharOrd(Head(x)) < CharOrd(Head(y))
    ELSE SeqLess(Tail(x), Tail(y))

\* str.__lt__ : lexicographic by code point.
StrLess(s, t) == SeqLess(Chars(s), Chars(t))

(***************************************************************************)
(* JSON text, as the token sequence of json.dump's output.                 *)
(***************************************************************************)
Tok(t, s) == [tok |-> t, s |-> s]

RECURSIVE JsonDumps(_)
RECURSIVE DumpMembers(_)
\* json.dump(data, f, indent=2)
JsonDumps(v) ==
    IF v.type = "str"
    THEN <<Tok("string", v.s)>>
    ELSE <<Tok("{", "")>> \o DumpMembers(v.items) \o <<Tok("}", "")>>

DumpMembers(entries) ==
    IF entries = <<>> THEN <<>>
    ELSE <<Tok("string", entries[1].key), Tok(":", "")>>
         \o JsonDumps(entries[1].val)
         \o (IF Len(entries) > 1 THEN <<Tok(",", "")>> ELSE <<>>)
         \o DumpMembers(Tail(entries))

\* Parser state: ok, the parsed value, the index of the next unread token.
PFail == [ok |-> FALSE, val |-> PyNone, next |-> 0]
POk(v, n) == [ok |-> TRUE, val |-> v, next |-> n]
TokAt(toks, i) == IF i <= Len(toks) THEN toks[i] ELSE Tok("eof", "")

RECURSIVE ParseValue(_, _)
RECURSIVE ParseMembers(_, _, _)
ParseValue(toks, i) ==
    LET t == TokAt(toks, i)
    IN IF t.tok = "string" THEN POk(PyStr(t.s), i + 1)
       ELSE IF t.tok = "{"
       THEN IF TokAt(toks, i + 1).tok = "}"
            THEN POk(EmptyDict, i + 2)
            ELSE ParseMembers(toks, i + 1, EmptyDict)
       ELSE PFail

\* members of an object from token i on; a repeated key keeps its last value.
ParseMembers(toks, i, acc) ==
    IF TokAt(toks, i).tok # "string" \/ TokAt(toks, i + 1).tok # ":" THEN PFail
    ELSE LET r == ParseValue(toks, i + 2)
         IN IF ~r.ok THEN PFail
            ELSE LET acc2 == DictSetItem(acc, TokAt(toks, i).s, r.val)
                     t == TokAt(toks, r.next)
                 IN IF t.tok = "}" THEN POk(acc2, r.next + 1)
                    ELSE IF t.tok = "," THEN ParseMembers(toks, r.next + 1, acc2)
                    ELSE PFail

\* json.loads(content)
JsonLoads(toks) ==
    LET r == ParseValue(toks, 1)
    IN IF r.ok /\ r.next = Len(toks) + 1 THEN Ok(r.val) ELSE Raise("JSONDecodeError")

(***************************************************************************)
(* The file at file_path.                                                  *)
(***************************************************************************)
MissingFile == [exists |-> FALSE, content |-> <<>>]
FileWith(toks) == [exists |-> TRUE, content |-> toks]

\* JsonFileAdapter._load_data
LoadData(f) ==
    IF ~f.exists THEN Ok(EmptyDict)
    ELSE IF f.content = <<>> THEN Ok(EmptyDict)
    ELSE JsonLoads(f.content)

\* JsonFileAdapter._save_data
SaveData(data) == FileWith(JsonDumps(data))

(***************************************************************************)
(* JsonFileAdapter.  Locator fields are Python values (None or str).       *)
(***************************************************************************)
IsNone(x) == x.type = "NoneType"

\* The if/elif cascade every adapter method opens with: the keys of the
\* node chain the method walks, chosen by which fields are not None.
AdapterPath(o, p, e, s) ==
    IF ~IsNone(s) /\ ~IsNone(e) /\ ~IsNone(p) /\ ~IsNone(o) THEN <<o.s, p.s, e.s, s.s>>
    ELSE IF ~IsNone(e) /\ ~IsNone(p) /\ ~IsNone(o) THEN <<o.s, p.s, e.s>>
    ELSE IF ~IsNone(p) /\ ~IsNone(o) THEN <<o.s, p.s>>
    ELSE IF ~IsNone(o) THEN <<o.s>>
    ELSE <<>>

\* data.setdefault(k1, {}).setdefault(k2, {})...[name] = value
RECURSIVE SetDefaultChain(_, _, _, _)
SetDefaultChain(d, path, name, value) ==
    IF path = <<>>
    THEN IF d.type = "dict"
         THEN Ok(DictSetItem(d, name, PyStr(value)))
         ELSE Raise("TypeError")
    ELSE IF d.type # "dict" THEN Raise("AttributeError")
    ELSE LET r == SetDefaultChain(DictGetOrEmpty(d, path[1]), Tail(path), name, value)
         IN IF r.raised # "" THEN r
            ELSE Ok(DictSetItem(d, path[1], r.val))

\* data.get(k1, {}).get(k2, {})... : the object the chain of .get calls ends at.
RECURSIVE GetChain(_, _)
GetChain(d, path) ==
    IF path = <<>> THEN Ok(d)
    ELSE IF d.type # "dict" THEN Raise("AttributeError")
    ELSE GetChain(DictGetOrEmpty(d, path[1]), Tail(path))

\* Mutation: the del statement is lost.
DelChainKeeps(d, path, name) == d

\* del data[k1][k2]...[name]
RECURSIVE DelChain(_, _, _)
DelChain(d, path, name) ==
    IF path = <<>>
    THEN DictDelItem(d, name)
    ELSE DictSetItem(d, path[1], DelChain(DictItem(d, path[1]), Tail(path), name))

\* Result of an adapter method: what it raised or returned, and the file after it.
AdapterResult(raised, ret, f) == [raised |-> raised, ret |-> ret, file |-> f]

\* What an adapter method holds when it has loaded the document and changed
\* it in memory: an exception, or the value it will return and, when it goes
\* on to _save_data, the document it will write.
Loaded(raised, ret, saves, data) ==
    [raised |-> raised, ret |-> ret, saves |-> saves, data |-> data]

\* JsonFileAdapter.set_variable up to its call of _save_data.
SetVariableLoaded(f, name, value, o, p, e, s) ==
    LET data == LoadData(f)
    IN IF data.raised # "" THEN Loaded(data.raised, PyNone, FALSE, PyNone)
       ELSE LET r == SetDefaultChain(data.val, AdapterPath(o, p, e, s), name, value)
            IN IF r.raised # "" THEN Loaded(r.raised, PyNone, FALSE, PyNone)
               ELSE Loaded("", PyNone, TRUE, r.val)

\* JsonFileAdapter.set_variable
AdapterSetVariable(f, name, value, o, p, e, s) ==
    LET st == SetVariableLoaded(f, name, value, o, p, e, s)
    IN IF st.saves THEN AdapterResult("", st.ret, SaveData(st.data))
       ELSE AdapterResult(st.raised, st.ret, f)

\* Mutation: the loop runs over the list from its last element to its first.
RECURSIVE AdapterSetVariablesLastFirst(_, _, _, _, _, _)
AdapterSetVariablesLastFirst(f, variables, o, p, e, s) ==
    IF variables = <<>> THEN AdapterResult("", PyNone, f)
    ELSE LET v == variables[Len(variables)]
             r == AdapterSetVariable(f, v.name, v.value, o, p, e, s)
         IN IF r.raised # "" THEN r
            ELSE AdapterSetVariablesLastFirst(r.file,
                     SubSeq(variables, 1, Len(variables) - 1), o, p, e, s)

\* JsonFileAdapter.set_variables : one set_variable per element, in list order.
RECURSIVE AdapterSetVariables(_, _, _, _, _, _)
AdapterSetVariables(f, variables, o, p, e, s) ==
    IF variables = <<>> THEN AdapterResult("", PyNone, f)
    ELSE LET r == AdapterSetVariable(f, variables[1].name, variables[1].value, o, p, e, s)
         IN IF r.raised # "" THEN r
            ELSE AdapterSetVariables(r.file, Tail(variables), o, p, e, s)

\* Mutation: get_variable writes the document it has loaded back to the file.
AdapterGetVariableSavesLoaded(f, name, o, p, e, s) ==
    LET data == LoadData(f)
    IN IF data.raised # "" THEN AdapterResult(data.raised, PyNone, f)
       ELSE LET node == GetChain(data.val, AdapterPath(o, p, e, s))
                g == SaveData(data.val)
            IN IF node.raised # "" THEN AdapterResult(node.raised, PyNone, g)
               ELSE IF node.val.type # "dict" THEN AdapterResult("AttributeError", PyNone, g)
               ELSE IF HasKey(node.val, name)
               THEN AdapterResult("", DictItem(node.val, name), g)
               ELSE AdapterResult("", PyNone, g)

\* JsonFileAdapter.get_variable
AdapterGetVariable(f, name, o, p, e, s) ==
    LET data == LoadData(f)
    IN IF data.raised # "" THEN AdapterResult(data.raised, PyNone, f)
       ELSE LET node == GetChain(data.val, AdapterPath(o, p, e, s))
            IN IF node.raised # "" THEN AdapterResult(node.raised, PyNone, f)
               ELSE IF node.val.type # "dict" THEN AdapterResult("AttributeError", PyNone, f)
               ELSE IF HasKey(node.val, name)
               THEN AdapterResult("", DictItem(node.val, name), f)
               ELSE AdapterResult("", PyNone, f)

\* [Variable(name=name, value=value) for name, value in node.items()] :
\* pydantic rejects a value that is not a str.
RECURSIVE VariablesOfItems(_)
VariablesOfItems(entries) ==
    IF entries = <<>> THEN Ok(<<>>)
    ELSE IF entries[1].val.type # "str" THEN Raise("ValidationError")
    ELSE LET r == VariablesOfItems(Tail(entries))
         IN IF r.raised # "" THEN r
            ELSE Ok(<<Variable(entries[1].key, entries[1].val.s)>> \o r.val)

\* JsonFileAdapter.get_variables
AdapterGetVariables(f, o, p, e, s) ==
    LET data == LoadData(f)
    IN IF data.raised # "" THEN AdapterResult(data.raised, PyNone, f)
       ELSE LET node == GetChain(data.val, AdapterPath(o, p, e, s))
            IN IF node.raised # "" THEN AdapterResult(node.raised, PyNone, f)
               ELSE IF node.val.type # "dict" THEN AdapterResult("AttributeError", PyNone, f)
               ELSE LET vs == VariablesOfItems(node.val.items)
                    IN IF vs.raised # "" THEN AdapterResult(vs.raised, PyNone, f)
                       ELSE AdapterResult("", PyList(vs.val), f)

\* `name in node` : key membership on a dict, substring test on a str.
NameIn(name, node) ==
    IF node.type = "dict" THEN HasKey(node, name) ELSE StrContains(node.s, name)

\* JsonFileAdapter.delete_variable up to its call of _save_data.
DeleteVariableLoaded(f, name, o, p, e, s) ==
    LET data == LoadData(f)
    IN IF data.raised # "" THEN Loaded(data.raised, PyNone, FALSE, PyNone)
       ELSE LET node == GetChain(data.val, AdapterPath(o, p, e, s))
            IN IF node.raised # "" THEN Loaded(node.raised, PyNone, FALSE, PyNone)
               ELSE IF ~NameIn(name, node.val) THEN Loaded("", PyBool(FALSE), FALSE, PyNone)
               ELSE IF node.val.type # "dict" THEN Loaded("TypeError", PyNone, FALSE, PyNone)
               ELSE Loaded("", PyBool(TRUE), TRUE,
                           DelChain(data.val, AdapterPath(o, p, e, s), name))

\* JsonFileAdapter.delete_variable
AdapterDeleteVariable(f, name, o, p, e, s) ==
    LET st == DeleteVariableLoaded(f, name, o, p, e, s)
    IN IF st.saves THEN AdapterResult("", st.ret, SaveData(st.data))
       ELSE AdapterResult(st.raised, st.ret, f)

\* JsonFileAdapter.delete_variables
RECURSIVE DeleteLoop(_, _, _, _, _, _, _, _)
DeleteLoop(f, names, deleted, notFound, o, p, e, s) ==
    IF names = <<>>
    THEN AdapterResult("", PyDict(<<[key |-> "deleted", val |-> PyList(deleted)],
                                    [key |-> "not_found", val |-> PyList(notFound)]>>), f)
    ELSE LET r == AdapterDeleteVariable(f, names[1], o, p, e, s)
         IN IF r.raised # "" THEN r
            ELSE IF r.ret.b
            THEN DeleteLoop(r.file, Tail(names), Append(deleted, names[1]), notFound, o, p, e, s)
            ELSE DeleteLoop(r.file, Tail(names), deleted, Append(notFound, names[1]), o, p, e, s)

AdapterDeleteVariables(f, names, o, p, e, s) ==
    DeleteLoop(f, names, <<>>, <<>>, o, p, e, s)

\* Mutation: the isinstance(v, dict) filter is lost.
DictKeysOfUnfiltered(entries) == [i \in 1..Len(entries) |-> entries[i].key]

\* [k for k, v in node.items() if isinstance(v, dict)]
RECURSIVE DictKeysOf(_)
DictKeysOf(entries) ==
    IF entries = <<>> THEN <<>>
    ELSE (IF entries[1].val.type = "dict" THEN <<entries[1].key>> ELSE <<>>)
         \o DictKeysOf(Tail(entries))

\* get_organisations / get_projects / get_environments / get_services share
\* one shape: the dict-valued keys of the node the parents' chain ends at.
\* The parents are used as given, with no None cascade.
ChildNodes(f, parents) ==
    LET data == LoadData(f)
    IN IF data.raised # "" THEN AdapterResult(data.raised, PyNone, f)
       ELSE LET node == GetChain(data.val, parents)
            IN IF node.raised # "" THEN AdapterResult(node.raised, PyNone, f)
               ELSE IF node.val.type # "dict" THEN AdapterResult("AttributeError", PyNone, f)
               ELSE AdapterResult("", PyList(DictKeysOf(node.val.items)), f)

\* A key used in data.get(key, {}): a None or other non-str key matches no
\* key of a document loaded from JSON.
KeyOf(x) == IF x.type = "str" THEN x.s ELSE "<no such key>"

AdapterGetOrganisations(f) == ChildNodes(f, <<>>)
AdapterGetProjects(f, o) == ChildNodes(f, <<KeyOf(o)>>)
AdapterGetEnvironments(f, o, p) == ChildNodes(f, <<KeyOf(o), KeyOf(p)>>)
AdapterGetServices(f, o, p, e) == ChildNodes(f, <<KeyOf(o), KeyOf(p), KeyOf(e)>>)

(***************************************************************************)
(* validate_hierarchy.  The wrapper reads the four fields from kwargs      *)
(* only: a field passed by position is not in kwargs, so kwargs.get        *)
(* yields None for it.                                                     *)
(***************************************************************************)
Kwargs(style, o, p, e, s) ==
    IF style = "keyword"
    THEN [organisation |-> o, project |-> p, environment |-> e, service |-> s]
    ELSE [organisation |-> PyNone, project |-> PyNone,
          environment |-> PyNone, service |-> PyNone]

IsBadType(x) == x.type # "NoneType" /\ x.type # "str"

\* Mutation: the message leaves out the type of the value.
TypeMessageNoType(field, x) == <<field, " must be a string">>

\* f"{name} must be a string, got {type(value).__name__}", as its parts.
TypeMessage(field, x) == <<field, " must be a string, got ", x.type>>

\* Mutation: the hierarchy checks run before the type checks.
ValidateHierarchyContainmentFirst(kw) ==
    IF ~IsNone(kw.service) /\ IsNone(kw.environment)
    THEN <<"service requires environment to be specified">>
    ELSE IF ~IsNone(kw.environment) /\ IsNone(kw.project)
    THEN <<"environment requires project to be specified">>
    ELSE IF ~IsNone(kw.project) /\ IsNone(kw.organisation)
    THEN <<"project requires organisation to be specified">>
    ELSE IF IsBadType(kw.organisation) THEN TypeMessage("organisation", kw.organisation)
    ELSE IF IsBadType(kw.project) THEN TypeMessage("project", kw.project)
    ELSE IF IsBadType(kw.environment) THEN TypeMessage("environment", kw.environment)
    ELSE IF IsBadType(kw.service) THEN TypeMessage("service", kw.service)
    ELSE <<>>

\* The message of the ValueError the wrapper raises, <<>> when it raises none.
ValidateHierarchy(kw) ==
    IF IsBadType(kw.organisation) THEN TypeMessage("organisation", kw.organisation)
    ELSE IF IsBadType(kw.project) THEN TypeMessage("project", kw.project)
    ELSE IF IsBadType(kw.environment) THEN TypeMessage("environment", kw.environment)
    ELSE IF IsBadType(kw.service) THEN TypeMessage("service", kw.service)
    ELSE IF ~IsNone(kw.service) /\ IsNone(kw.environment)
    THEN <<"service requires environment to be specified">>
    ELSE IF ~IsNone(kw.environment) /\ IsNone(kw.project)
    THEN <<"environment requires project to be specified">>
    ELSE IF ~IsNone(kw.project) /\ IsNone(kw.organisation)
    THEN <<"project requires organisation to be specified">>
    ELSE <<>>

(***************************************************************************)
(* EnvironmentStoreManager.  A result carries what the call raised or      *)
(* returned, the file after it, and the adapter methods it invoked.        *)
(***************************************************************************)
MResult(raised, msg, ret, f, calls) ==
    [raised |-> raised, msg |-> msg, ret |-> ret, file |-> f, calls |-> calls]

AdapterCall(method, args) == [method |-> method, args |-> args]

\* Mutation: the adapter is called and its return value is dropped.
ForwardDropsResult(r, method, args) ==
    MResult(r.raised, <<>>, PyNone, r.file, <<AdapterCall(method, args)>>)

\* return self.adapter.<method>(...)
Forward(r, method, args) ==
    MResult(r.raised, <<>>, r.ret, r.file, <<AdapterCall(method, args)>>)

Rejected(msg, f) == MResult("ValueError", msg, PyNone, f, <<>>)

ManagerSetVariable(f, style, name, value, o, p, e, s) ==
    LET msg == ValidateHierarchy(Kwargs(style, o, p, e, s))
    IN IF msg # <<>> THEN Rejected(msg, f)
       ELSE Forward(AdapterSetVariable(f, name, value, o, p, e, s),
                    "set_variable", <<name, value, o, p, e, s>>)

\* [Variable(name=name, value=value) for name, value in variables.items()]
RECURSIVE VariablesOfDict(_)
VariablesOfDict(entries) ==
    IF entries = <<>> THEN <<>>
    ELSE <<Variable(entries[1].key, entries[1].val.s)>> \o VariablesOfDict(Tail(entries))

ManagerSetVariables(f, style, variables, o, p, e, s) ==
    LET msg == ValidateHierarchy(Kwargs(style, o, p, e, s))
        vs == IF variables.type = "dict" THEN VariablesOfDict(variables.items)
              ELSE variables.items
    IN IF msg # <<>> THEN Rejected(msg, f)
       ELSE Forward(AdapterSetVariables(f, vs, o, p, e, s),
                    "set_variables", <<vs, o, p, e, s>>)

ManagerGetVariable(f, style, name, o, p, e, s) ==
    LET msg == ValidateHierarchy(Kwargs(style, o, p, e, s))
    IN IF msg # <<>> THEN Rejected(msg, f)
       ELSE Forward(AdapterGetVariable(f, name, o, p, e, s),
                    "get_variable", <<name, o, p, e, s>>)

ManagerGetVariables(f, style, o, p, e, s) ==
    LET msg == ValidateHierarchy(Kwargs(style, o, p, e, s))
    IN IF msg # <<>> THEN Rejected(msg, f)
       ELSE Forward(AdapterGetVariables(f, o, p, e, s),
                    "get_variables", <<o, p, e, s>>)

ManagerDeleteVariable(f, style, name, o, p, e, s) ==
    LET msg == ValidateHierarchy(Kwargs(style, o, p, e, s))
    IN IF msg # <<>> THEN Rejected(msg, f)
       ELSE Forward(AdapterDeleteVariable(f, name, o, p, e, s),
                    "delete_variable", <<name, o, p, e, s>>)

ManagerDeleteVariables(f, style, names, o, p, e, s) ==
    LET msg == ValidateHierarchy(Kwargs(style, o, p, e, s))
    IN IF msg # <<>> THEN Rejected(msg, f)
       ELSE Forward(AdapterDeleteVariables(f, names, o, p, e, s),
                    "delete_variables", <<names, o, p, e, s>>)

\* get_organisations and get_projects carry no decorator.
ManagerGetOrganisations(f) ==
    Forward(AdapterGetOrganisations(f), "get_organisations", <<>>)

ManagerGetProjects(f, o) ==
    Forward(AdapterGetProjects(f, o), "get_projects", <<o>>)

ManagerGetEnvironments(f, style, o, p) ==
    LET msg == ValidateHierarchy(Kwargs(style, o, p, PyNone, PyNone))
    IN IF msg # <<>> THEN Rejected(msg, f)
       ELSE Forward(AdapterGetEnvironments(f, o, p), "get_environments", <<o, p>>)

ManagerGetServices(f, style, o, p, e) ==
    LET msg == ValidateHierarchy(Kwargs(style, o, p, e, PyNone))
    IN IF msg # <<>> THEN Rejected(msg, f)
       ELSE Forward(AdapterGetServices(f, o, p, e), "get_services", <<o, p, e>>)

\* Mutation: a name met again keeps the value it has.
RECURSIVE ValueDictOfFirstWins(_, _)
ValueDictOfFirstWins(vs, acc) ==
    IF vs = <<>> THEN acc
    ELSE IF HasKey(acc, vs[1].name) THEN ValueDictOfFirstWins(Tail(vs), acc)
    ELSE ValueDictOfFirstWins(Tail(vs), DictSetItem(acc, vs[1].name, PyStr(vs[1].value)))

\* {variable.name: variable.value for variable in variables}
RECURSIVE ValueDictOf(_, _)
ValueDictOf(vs, acc) ==
    IF vs = <<>> THEN acc
    ELSE ValueDictOf(Tail(vs), DictSetItem(acc, vs[1].name, PyStr(vs[1].value)))

\* get_variables_as_dict over any adapter: got is what the adapter's
\* get_variables does when the Manager's get_variables reaches it.
ManagerGetVariablesAsDictOver(got, f, style, o, p, e, s) ==
    LET msg == ValidateHierarchy(Kwargs(style, o, p, e, s))
        inner == ValidateHierarchy(Kwargs("keyword", o, p, e, s))
        r == IF inner # <<>> THEN Rejected(inner, f)
             ELSE Forward(got, "get_variables", <<o, p, e, s>>)
    IN IF msg # <<>> THEN Rejected(msg, f)
       ELSE IF r.raised # "" THEN r
       ELSE MResult("", <<>>, ValueDictOf(r.ret.items, EmptyDict), r.file, r.calls)

ManagerGetVariablesAsDict(f, style, o, p, e, s) ==
    ManagerGetVariablesAsDictOver(AdapterGetVariables(f, o, p, e, s), f, style, o, p, e, s)

(***************************************************************************)
(* overwrite_hierarchy_variables (static).  Arguments are Python values:   *)
(* None, or a list whose elements are Variables or anything else.          *)
(***************************************************************************)
\* {variable.name: variable for variable in xs} : reading .name of an
\* element that is not a Variable raises AttributeError.
RECURSIVE NameDictOf(_, _)
NameDictOf(xs, acc) ==
    IF xs = <<>> THEN Ok(acc)
    ELSE IF xs[1].type # "Variable" THEN Raise("AttributeError")
    ELSE NameDictOf(Tail(xs), DictSetItem(acc, xs[1].name, xs[1]))

\* Mutation: update() that keeps the value of a key already present.
RECURSIVE DictUpdateKeepsExisting(_, _)
DictUpdateKeepsExisting(d, entries) ==
    IF entries = <<>> THEN d
    ELSE DictUpdateKeepsExisting(
             IF HasKey(d, entries[1].key) THEN d
             ELSE PyDict(Append(d.items, entries[1])),
             Tail(entries))

\* d.update(other)
RECURSIVE DictUpdate(_, _)
DictUpdate(d, entries) ==
    IF entries = <<>> THEN d
    ELSE DictUpdate(DictSetItem(d, entries[1].key, entries[1].val), Tail(entries))

\* list(d.values())
DictValues(d) == [i \in 1..Len(d.items) |-> d.items[i].val]

\* sorted(xs, key=lambda x: x.name) : stable insertion into a sorted prefix.
RECURSIVE InsertByName(_, _)
InsertByName(sorted, x) ==
    IF sorted = <<>> THEN <<x>>
    ELSE IF StrLess(x.name, Head(sorted).name) THEN <<x>> \o sorted
    ELSE <<Head(sorted)>> \o InsertByName(Tail(sorted), x)

\* Mutation: the sort is dropped.
SortedByNameUnsorted(xs, acc) == acc \o xs

RECURSIVE SortedByName(_, _)
SortedByName(xs, acc) ==
    IF xs = <<>> THEN acc
    ELSE SortedByName(Tail(xs), InsertByName(acc, xs[1]))

\* Mutation: the result is sorted by name in both branches.
OverwriteAlwaysSorted(variables, overwrite_variables, overwrite_parent) ==
    IF IsNone(overwrite_variables) THEN Raise("ValueError")
    ELSE IF IsNone(variables) THEN Raise("ValueError")
    ELSE LET overwrite_dict == NameDictOf(overwrite_variables.items, EmptyDict)
             variables_dict == NameDictOf(variables.items, EmptyDict)
         IN IF overwrite_dict.raised # "" THEN overwrite_dict
            ELSE IF variables_dict.raised # "" THEN variables_dict
            ELSE IF overwrite_parent
            THEN Ok(PyList(SortedByName(
                     DictValues(DictUpdate(variables_dict.val, overwrite_dict.val.items)), <<>>)))
            ELSE Ok(PyList(SortedByName(
                     DictValues(DictUpdate(overwrite_dict.val, variables_dict.val.items)), <<>>)))

\* Mutation: a None argument is taken for the empty list.
OverwriteNoneAsEmpty(variables, overwrite_variables, overwrite_parent) ==
    LET ov == IF IsNone(overwrite_variables) THEN <<>> ELSE overwrite_variables.items
        vs == IF IsNone(variables) THEN <<>> ELSE variables.items
        overwrite_dict == NameDictOf(ov, EmptyDict)
        variables_dict == NameDictOf(vs, EmptyDict)
    IN IF overwrite_dict.raised # "" THEN overwrite_dict
       ELSE IF variables_dict.raised # "" THEN variables_dict
       ELSE IF overwrite_parent
       THEN Ok(PyList(DictValues(DictUpdate(variables_dict.val, overwrite_dict.val.items))))
       ELSE Ok(PyList(SortedByName(
                DictValues(DictUpdate(overwrite_dict.val, variables_dict.val.items)), <<>>)))

OverwriteHierarchyVariables(variables, overwrite_variables, overwrite_parent) ==
    IF IsNone(overwrite_variables) THEN Raise("ValueError")
    ELSE IF IsNone(variables) THEN Raise("ValueError")
    ELSE LET overwrite_dict == NameDictOf(overwrite_variables.items, EmptyDict)
             variables_dict == NameDictOf(variables.items, EmptyDict)
         IN IF overwrite_dict.raised # "" THEN overwrite_dict
            ELSE IF variables_dict.raised # "" THEN variables_dict
            ELSE IF overwrite_parent
            THEN Ok(PyList(DictValues(DictUpdate(variables_dict.val, overwrite_dict.val.items))))
            ELSE Ok(PyList(SortedByName(
                     DictValues(DictUpdate(overwrite_dict.val, variables_dict.val.items)), <<>>)))

(***************************************************************************)
(* Effective-view queries.  Each appends its parent's result, itself a     *)
(* list, as ONE element of `variables`, then merges.                       *)
(***************************************************************************)
\* variables = []; if include_parent: variables.append(parent);
\* return overwrite_hierarchy_variables(variables, exact, overwrite_parent)
\* `parent` and `exact` are manager results, evaluated in that order.
EffectiveView(f, include_parent, parent, exact, overwrite_parent) ==
    LET before == IF include_parent THEN parent.calls ELSE <<>>
        variables == IF include_parent THEN PyList(<<parent.ret>>) ELSE PyList(<<>>)
    IN IF include_parent /\ parent.raised # "" THEN parent
       ELSE IF exact.raised # ""
       THEN MResult(exact.raised, exact.msg, PyNone, f, before \o exact.calls)
       ELSE LET m == OverwriteHierarchyVariables(variables, exact.ret, overwrite_parent)
            IN MResult(m.raised, <<>>, m.val, f, before \o exact.calls)

\* get_root_variables
ManagerGetRootVariables(f) ==
    ManagerGetVariables(f, "keyword", PyNone, PyNone, PyNone, PyNone)

ManagerGetOrganisationVariables(f, o, include_parent, overwrite_parent) ==
    EffectiveView(f, include_parent,
        ManagerGetVariables(f, "keyword", PyNone, PyNone, PyNone, PyNone),
        ManagerGetVariables(f, "keyword", o, PyNone, PyNone, PyNone),
        overwrite_parent)

\* The parent is asked with include_parent passed on and overwrite_parent
\* left at its default, True.
ManagerGetProjectVariables(f, o, p, include_parent, overwrite_parent) ==
    EffectiveView(f, include_parent,
        ManagerGetOrganisationVariables(f, o, include_parent, TRUE),
        ManagerGetVariables(f, "keyword", o, p, PyNone, PyNone),
        overwrite_parent)

ManagerGetEnvironmentVariables(f, o, p, e, include_parent, overwrite_parent) ==
    EffectiveView(f, include_parent,
        ManagerGetProjectVariables(f, o, p, include_parent, TRUE),
        ManagerGetVariables(f, "keyword", o, p, e, PyNone),
        overwrite_parent)

ManagerGetServiceVariables(f, o, p, e, s, include_parent, overwrite_parent) ==
    EffectiveView(f, include_parent,
        ManagerGetEnvironmentVariables(f, o, p, e, include_parent, TRUE),
        ManagerGetVariables(f, "keyword", o, p, e, s),
        overwrite_parent)

(***************************************************************************)
(* Bounds and inputs.                                                      *)
(***************************************************************************)
\* Number of mutating Manager calls (set_*, delete_*) in one run.
MaxOps == 1
\* Longest list handed to overwrite_hierarchy_variables.
MaxLen == 2

None == PyNone
A == PyStr("a")
C == PyStr("c")

\* Variable names and values.  "a" is also a hierarchy name, so a variable
\* and a node can compete for one key; "ab" contains both names.
VarNames == {"a", "b"}
Values == {"v", "ab"}

\* Locators satisfying containment: root, two organisations, one project,
\* one environment, two services.
ValidLocators ==
    { <<None, None, None, None>>, <<A, None, None, None>>, <<C, None, None, None>>,
      <<A, A, None, None>>, <<A, A, A, None>>, <<A, A, A, A>>, <<A, A, A, C>> }

\* Locators violating containment: project without organisation, environment
\* without project, service without environment, service alone.
InvalidLocators ==
    { <<None, A, None, None>>, <<A, None, A, None>>, <<A, None, A, A>>,
      <<A, A, None, A>>, <<None, None, None, A>> }

\* Locators with a field that is neither None nor a str, alone or together
\* with a containment violation.
IllTypedLocators ==
    { <<PyInt(5), None, None, None>>, <<PyInt(5), None, None, A>>,
      <<A, PyList(<<>>), None, None>>, <<None, None, EmptyDict, None>>,
      <<A, A, A, PyInt(5)>>, <<A, PyInt(5), PyList(<<>>), None>> }

\* How a call passes its locator: every field by keyword, or every field
\* by position.
CallShapes ==
    ({"keyword"} \X (ValidLocators \cup InvalidLocators \cup IllTypedLocators))
    \cup ({"positional"} \X (InvalidLocators \cup {<<A, None, None, None>>}))

Entry(k, v) == [key |-> k, val |-> v]

\* Arguments of set_variables: lists of Variables, or a name-to-value dict.
Batches ==
    { PyList(<<>>),
      PyList(<<Variable("a", "v")>>),
      PyList(<<Variable("b", "v"), Variable("a", "ab")>>),
      PyList(<<Variable("b", "v"), Variable("b", "ab")>>),
      PyDict(<<Entry("a", PyStr("ab")), Entry("b", PyStr("v"))>>) }

\* Arguments of delete_variables.
NameLists == { <<>>, <<"a">>, <<"a", "b">>, <<"b", "b">> }

\* Documents found at file_path when the adapter is constructed.  Each is a
\* document set_variable calls can produce.
SeedDeep ==
    PyDict(<<
      Entry("b", PyStr("v")),
      Entry("a", PyDict(<<
        Entry("b", PyStr("ab")),
        Entry("a", PyDict(<<
          Entry("a", PyDict(<<
            Entry("b", PyStr("v")),
            Entry("a", PyDict(<<Entry("b", PyStr("ab"))>>))>>))>>))>>)),
      Entry("c", PyDict(<<Entry("a", PyStr("v"))>>))>>)

\* Here the root variable "a" holds the key an organisation "a" would need.
SeedClash ==
    PyDict(<<
      Entry("a", PyStr("ab")),
      Entry("c", PyDict(<<Entry("b", PyStr("v"))>>))>>)

InitialFiles ==
    { MissingFile, FileWith(<<>>), SaveData(EmptyDict),
      SaveData(SeedDeep), SaveData(SeedClash) }

(***************************************************************************)
(* State: the file, the call in progress (its arguments, the file before   *)
(* it, and its result), and the number of mutating calls made.             *)
(***************************************************************************)
NoCall == [op |-> "none"]

CallRecord(op, style, args, r) ==
    [op |-> op, style |-> style, args |-> args, loc |-> args.loc, before |-> file,
     raised |-> r.raised, msg |-> r.msg, ret |-> r.ret, calls |-> r.calls]

\* One caller, whose calls run to completion one after the other.
NoCallers == <<>>

Init ==
    /\ file \in InitialFiles
    /\ last = NoCall
    /\ nops = 0
    /\ callers = NoCallers

\* No call is in progress: the caller may make one.
CanCall == last.op = "none"

\* A further mutating call is within the bound.
CanMutate == CanCall /\ nops < MaxOps

\* A read runs to completion.
Read(op, style, args, r) ==
    /\ last' = CallRecord(op, style, args, r)
    /\ file' = r.file
    /\ UNCHANGED <<nops, callers>>

\* A mutating call runs to completion.
Mutate(op, style, args, r) ==
    /\ last' = CallRecord(op, style, args, r)
    /\ file' = r.file
    /\ nops' = nops + 1
    /\ UNCHANGED callers

SetVariable ==
    /\ CanMutate
    /\ \E name \in VarNames, value \in Values, sh \in CallShapes :
           LET l == sh[2]
           IN Mutate("set_variable", sh[1], [name |-> name, value |-> value, loc |-> l],
                     ManagerSetVariable(file, sh[1], name, value, l[1], l[2], l[3], l[4]))

SetVariables ==
    /\ CanMutate
    /\ \E variables \in Batches, sh \in CallShapes :
           LET l == sh[2]
           IN Mutate("set_variables", sh[1], [variables |-> variables, loc |-> l],
                     ManagerSetVariables(file, sh[1], variables, l[1], l[2], l[3], l[4]))

GetVariable ==
    /\ CanCall
    /\ \E name \in VarNames, sh \in CallShapes :
           LET l == sh[2]
           IN Read("get_variable", sh[1], [name |-> name, loc |-> l],
                   ManagerGetVariable(file, sh[1], name, l[1], l[2], l[3], l[4]))

GetVariables ==
    /\ CanCall
    /\ \E sh \in CallShapes :
           LET l == sh[2]
           IN Read("get_variables", sh[1], [loc |-> l],
                   ManagerGetVariables(file, sh[1], l[1], l[2], l[3], l[4]))

GetVariablesAsDict ==
    /\ CanCall
    /\ \E sh \in CallShapes :
           LET l == sh[2]
           IN Read("get_variables_as_dict", sh[1], [loc |-> l],
                   ManagerGetVariablesAsDict(file, sh[1], l[1], l[2], l[3], l[4]))

DeleteVariable ==
    /\ CanMutate
    /\ \E name \in VarNames, sh \in CallShapes :
           LET l == sh[2]
           IN Mutate("delete_variable", sh[1], [name |-> name, loc |-> l],
                     ManagerDeleteVariable(file, sh[1], name, l[1], l[2], l[3], l[4]))

DeleteVariables ==
    /\ CanMutate
    /\ \E names \in NameLists, sh \in CallShapes :
           LET l == sh[2]
           IN Mutate("delete_variables", sh[1], [names |-> names, loc |-> l],
                     ManagerDeleteVariables(file, sh[1], names, l[1], l[2], l[3], l[4]))

GetOrganisations ==
    /\ CanCall
    /\ Read("get_organisations", "keyword", [loc |-> <<None, None, None, None>>],
            ManagerGetOrganisations(file))

GetProjects ==
    /\ CanCall
    /\ \E o \in {None, A, C} :
           Read("get_projects", "positional", [loc |-> <<o, None, None, None>>],
                ManagerGetProjects(file, o))

GetEnvironments ==
    /\ CanCall
    /\ \E style \in {"keyword", "positional"}, o \in {None, A}, p \in {A} :
           Read("get_environments", style, [loc |-> <<o, p, None, None>>],
                ManagerGetEnvironments(file, style, o, p))

GetServices ==
    /\ CanCall
    /\ \E style \in {"keyword", "positional"}, o \in {A}, p \in {None, A}, e \in {A} :
           Read("get_services", style, [loc |-> <<o, p, e, None>>],
                ManagerGetServices(file, style, o, p, e))

GetRootVariables ==
    /\ CanCall
    /\ Read("get_root_variables", "keyword", [loc |-> <<None, None, None, None>>],
            ManagerGetRootVariables(file))

GetOrganisationVariables ==
    /\ CanCall
    /\ \E o \in {A, C}, ip \in BOOLEAN, op \in BOOLEAN :
           Read("get_organisation_variables", "positional",
                [loc |-> <<o, None, None, None>>, include_parent |-> ip, overwrite_parent |-> op],
                ManagerGetOrganisationVariables(file, o, ip, op))

GetProjectVariables ==
    /\ CanCall
    /\ \E ip \in BOOLEAN, op \in BOOLEAN :
           Read("get_project_variables", "positional",
                [loc |-> <<A, A, None, None>>, include_parent |-> ip, overwrite_parent |-> op],
                ManagerGetProjectVariables(file, A, A, ip, op))

GetEnvironmentVariables ==
    /\ CanCall
    /\ \E ip \in BOOLEAN, op \in BOOLEAN :
           Read("get_environment_variables", "positional",
                [loc |-> <<A, A, A, None>>, include_parent |-> ip, overwrite_parent |-> op],
                ManagerGetEnvironmentVariables(file, A, A, A, ip, op))

GetServiceVariables ==
    /\ CanCall
    /\ \E s \in {A, C}, ip \in BOOLEAN, op \in BOOLEAN :
           Read("get_service_variables", "positional",
                [loc |-> <<A, A, A, s>>, include_parent |-> ip, overwrite_parent |-> op],
                ManagerGetServiceVariables(file, A, A, A, s, ip, op))

\* The call returns to its caller, which may then make the next call.
Return ==
    /\ last.op # "none"
    /\ last' = NoCall
    /\ UNCHANGED <<file, nops, callers>>

Next ==
    \/ SetVariable
    \/ SetVariables
    \/ GetVariable
    \/ GetVariables
    \/ GetVariablesAsDict
    \/ DeleteVariable
    \/ DeleteVariables
    \/ GetOrganisations
    \/ GetProjects
    \/ GetEnvironments
    \/ GetServices
    \/ GetRootVariables
    \/ GetOrganisationVariables
    \/ GetProjectVariables
    \/ GetEnvironmentVariables
    \/ GetServiceVariables
    \/ Return

Spec == Init /\ [][Next]_vars

(***************************************************************************)
(* The merge on its own: overwrite_hierarchy_variables is a static method  *)
(* and is called on arbitrary arguments.                                   *)
(***************************************************************************)
MergeNames == {"a", "b", "c"}
MergeValues == {"1", "2"}
MergeVariables == {Variable(n, v) : n \in MergeNames, v \in MergeValues}

SeqsUpTo(S, n) == UNION {[1..k -> S] : k \in 0..n}

\* None, every list of at most MaxLen Variables (names may repeat), and
\* lists that hold a list, as the effective-view queries build them.
MergeArgs ==
    {None}
    \cup {PyList(xs) : xs \in SeqsUpTo(MergeVariables, MaxLen)}
    \cup {PyList(<<PyList(<<>>)>>), PyList(<<PyList(<<Variable("a", "1")>>)>>)}

OverwriteHierarchyVariablesCall ==
    /\ CanCall
    /\ \E variables \in MergeArgs, overwrite_variables \in MergeArgs, overwrite_parent \in BOOLEAN :
           LET m == OverwriteHierarchyVariables(variables, overwrite_variables, overwrite_parent)
           IN Read("overwrite_hierarchy_variables", "positional",
                   [variables |-> variables, overwrite_variables |-> overwrite_variables,
                    overwrite_parent |-> overwrite_parent, loc |-> <<None, None, None, None>>],
                   MResult(m.raised, <<>>, m.val, file, <<>>))

InitMerge ==
    /\ file = MissingFile
    /\ last = NoCall
    /\ nops = 0
    /\ callers = NoCallers

NextMerge ==
    \/ OverwriteHierarchyVariablesCall
    \/ Return

SpecMerge == InitMerge /\ [][NextMerge]_vars

(***************************************************************************)
(* The Manager over any adapter: get_variables_as_dict when the adapter's  *)
(* get_variables returns an arbitrary list of Variables, names repeated    *)
(* or not, or raises.                                                      *)
(***************************************************************************)
AdapterOutcomes ==
    {AdapterResult("", PyList(xs), MissingFile) : xs \in SeqsUpTo(MergeVariables, MaxLen)}
    \cup {AdapterResult("ValidationError", PyNone, MissingFile)}

GetVariablesAsDictOverAdapter ==
    /\ CanCall
    /\ \E got \in AdapterOutcomes, l \in ValidLocators :
           Read("get_variables_as_dict", "keyword", [loc |-> l, got |-> got],
                ManagerGetVariablesAsDictOver(got, file, "keyword", l[1], l[2], l[3], l[4]))

NextAnyAdapter ==
    \/ GetVariablesAsDictOverAdapter
    \/ Return

SpecAnyAdapter == InitMerge /\ [][NextAnyAdapter]_vars

(***************************************************************************)
(* Concurrent callers on one file.  An adapter method is not atomic: it    *)
(* loads the document (_load_data), changes it in memory, and, in          *)
(* _save_data, opens the file for writing, which truncates it, and then    *)
(* writes the document from the start of the file and closes it.  Nothing  *)
(* locks the file, so the steps of two callers interleave freely.  A       *)
(* document is written in one piece (it fits the write buffer).            *)
(***************************************************************************)
Callers == {"A", "B"}

Other(c) == CHOOSE d \in Callers : d # c

Idle == [pc |-> "idle"]

ConcurrentLocators == { <<None, None, None, None>>, <<C, None, None, None>> }

\* The adapter calls a concurrent caller may make.
ConcurrentCalls ==
    {[op |-> "set_variable", name |-> n, value |-> v, loc |-> l] :
        n \in VarNames, v \in Values, l \in ConcurrentLocators}
    \cup {[op |-> "delete_variable", name |-> n, value |-> "", loc |-> l] :
        n \in VarNames, l \in ConcurrentLocators}

\* The method up to its call of _save_data, on file f.
LoadedOf(call, f) ==
    LET l == call.loc
    IN IF call.op = "set_variable"
       THEN SetVariableLoaded(f, call.name, call.value, l[1], l[2], l[3], l[4])
       ELSE DeleteVariableLoaded(f, call.name, l[1], l[2], l[3], l[4])

\* Mutation: the file is opened without being truncated (mode "r+").
OpenWithoutTruncating(f) == FileWith(f.content)

\* open(self.file_path, "w") : creates the file or truncates it.
OpenForWrite(f) == FileWith(<<>>)

\* json.dump and close: the text goes to the start of the file, over
\* whatever another writer has put there since the truncation.
WriteAtStart(content, toks) ==
    toks \o SubSeq(content, Len(toks) + 1, Len(content))

\* What a caller records of the other caller's position.
PeerView(r) ==
    IF r.pc = "idle" THEN Idle
    ELSE [pc |-> r.pc, saves |-> r.saves, prev |-> r.prev, data |-> r.data]

InitConcurrent ==
    /\ file \in {MissingFile, SaveData(SeedClash)}
    /\ last = NoCall
    /\ nops = 0
    /\ callers = [c \in Callers |-> Idle]

\* _load_data and the change in memory; a call that raises or finds nothing
\* to delete returns here.
CallerLoads ==
    \E c \in Callers :
        /\ callers[c].pc = "idle"
        /\ \E call \in ConcurrentCalls :
               LET st == LoadedOf(call, file)
               IN callers' = [callers EXCEPT ![c] =
                      [pc |-> IF st.saves THEN "loaded" ELSE "done",
                       call |-> call, from |-> file,
                       raised |-> st.raised, ret |-> st.ret,
                       saves |-> st.saves, data |-> st.data,
                       peerAtLoad |-> PeerView(callers[Other(c)]),
                       peerAtOpen |-> "none", prev |-> file]]
        /\ UNCHANGED <<file, last, nops>>

\* _save_data: open(self.file_path, "w")
CallerOpens ==
    \E c \in Callers :
        /\ callers[c].pc = "loaded"
        /\ file' = OpenForWrite(file)
        /\ callers' = [callers EXCEPT ![c].pc = "writing",
                                      ![c].peerAtOpen = callers[Other(c)].pc,
                                      ![c].prev = file]
        /\ UNCHANGED <<last, nops>>

\* _save_data: json.dump(data, f, indent=2) and the close of the file.
CallerWrites ==
    \E c \in Callers :
        /\ callers[c].pc = "writing"
        /\ file' = FileWith(WriteAtStart(file.content, JsonDumps(callers[c].data)))
        /\ callers' = [callers EXCEPT ![c].pc = "done"]
        /\ nops' = nops + 1
        /\ UNCHANGED last

NextConcurrent ==
    \/ CallerLoads
    \/ CallerOpens
    \/ CallerWrites

SpecConcurrent == InitConcurrent /\ [][NextConcurrent]_vars

(***************************************************************************)
(* Vocabulary of the properties: what a document stores, read off the      *)
(* parsed document directly.                                               *)
(***************************************************************************)
\* The document a file holds.
DocOf(f) == LoadData(f).val

\* The names a locator gives, outermost first.
RECURSIVE LocatorPath(_)
LocatorPath(l) ==
    IF l = <<>> \/ IsNone(Head(l)) THEN <<>>
    ELSE <<Head(l).s>> \o LocatorPath(Tail(l))

\* Containment: no field is set below a field that is None.
Contained(l) ==
    \A i \in 1..3 : IsNone(l[i]) => IsNone(l[i + 1])

\* The node of document d at path: a mapping reached through mappings.
RECURSIVE NodeExists(_, _)
NodeExists(d, path) ==
    /\ d.type = "dict"
    /\ \/ path = <<>>
       \/ /\ HasKey(d, path[1])
          /\ NodeExists(DictItem(d, path[1]), Tail(path))

RECURSIVE NodeAt(_, _)
NodeAt(d, path) ==
    IF path = <<>> THEN d ELSE NodeAt(DictItem(d, path[1]), Tail(path))

\* Name n is stored as a variable (a string) directly at path.
HoldsVariable(d, path, n) ==
    /\ NodeExists(d, path)
    /\ HasKey(NodeAt(d, path), n)
    /\ DictItem(NodeAt(d, path), n).type = "str"

StoredValue(d, path, n) == DictItem(NodeAt(d, path), n).s

AllKeys == VarNames \cup {"c"}

\* The levels of a path, root first: its prefixes.
Levels(path) == {SubSeq(path, 1, k) : k \in 0..Len(path)}

\* The names stored at path or at any ancestor of it.
NamesOnPath(d, path) ==
    {n \in AllKeys : \E q \in Levels(path) : HoldsVariable(d, q, n)}

DeepestHolder(d, path, n) ==
    CHOOSE q \in Levels(path) :
        /\ HoldsVariable(d, q, n)
        /\ \A r \in Levels(path) : HoldsVariable(d, r, n) => Len(r) <= Len(q)

ShallowestHolder(d, path, n) ==
    CHOOSE q \in Levels(path) :
        /\ HoldsVariable(d, q, n)
        /\ \A r \in Levels(path) : HoldsVariable(d, r, n) => Len(q) <= Len(r)

HierarchyOps ==
    {"set_variable", "set_variables", "get_variable", "get_variables",
     "get_variables_as_dict", "delete_variable", "delete_variables",
     "get_environments", "get_services"}

EffectiveOps ==
    {"get_organisation_variables", "get_project_variables",
     "get_environment_variables", "get_service_variables"}

\* A list of Variables in which no name occurs twice.
NameUnique(x) ==
    /\ x.type = "list"
    /\ \A i \in 1..Len(x.items) : x.items[i].type = "Variable"
    /\ \A i, j \in 1..Len(x.items) : x.items[i].name = x.items[j].name => i = j

NamesOf(x) == {x.items[i].name : i \in 1..Len(x.items)}

\* The Variable of list x named n.
Named(x, n) == x.items[CHOOSE i \in 1..Len(x.items) : x.items[i].name = n]

IsMerge == last.op = "overwrite_hierarchy_variables"

(***************************************************************************)
(* C1.  A Manager operation taking hierarchy parameters, given a locator   *)
(* that violates containment, by keyword or by position, raises a          *)
(* validation error, invokes no adapter method and leaves the file as it   *)
(* was.                                                                    *)
(***************************************************************************)
C1_ContainmentRejected ==
    (last.op \in HierarchyOps /\ ~Contained(last.loc))
        => /\ last.raised = "ValueError"
           /\ last.calls = <<>>
           /\ file = last.before

(***************************************************************************)
(* C2.  An effective-view query at a valid locator with include_parent     *)
(* and overwrite_parent both true returns a list with exactly one          *)
(* Variable per name stored at the locator or an ancestor, carrying the    *)
(* value of the deepest level that stores the name.                        *)
(***************************************************************************)
C2_EffectiveViewDeepestWins ==
    (/\ last.op \in EffectiveOps
     /\ last.args.include_parent
     /\ last.args.overwrite_parent)
        => LET d == DocOf(last.before)
               path == LocatorPath(last.loc)
               names == NamesOnPath(d, path)
           IN /\ last.raised = ""
              /\ last.ret.type = "list"
              /\ Len(last.ret.items) = Cardinality(names)
              /\ \A n \in names :
                    \E i \in 1..Len(last.ret.items) :
                        last.ret.items[i]
                            = Variable(n, StoredValue(d, DeepestHolder(d, path, n), n))

(***************************************************************************)
(* C3.  get_project_variables, get_environment_variables and               *)
(* get_service_variables with include_parent true and overwrite_parent     *)
(* false apply parent-wins at every level: a name stored at several levels *)
(* of the path is returned with the value of the shallowest one.           *)
(***************************************************************************)
C3_ParentWinsAtEveryLevel ==
    (/\ last.op \in EffectiveOps \ {"get_organisation_variables"}
     /\ last.args.include_parent
     /\ ~last.args.overwrite_parent)
        => LET d == DocOf(last.before)
               path == LocatorPath(last.loc)
           IN /\ last.raised = ""
              /\ last.ret.type = "list"
              /\ \A n \in NamesOnPath(d, path) :
                    \E i \in 1..Len(last.ret.items) :
                        last.ret.items[i]
                            = Variable(n, StoredValue(d, ShallowestHolder(d, path, n), n))

(***************************************************************************)
(* C4.  With overwrite_parent true and name-unique lists, the merge        *)
(* returns base in base's order, each Variable replaced by override's      *)
(* Variable of the same name when there is one, followed by the Variables  *)
(* of override whose names base lacks, in override's order.                *)
(***************************************************************************)
C4_OverridePrecedence ==
    (/\ IsMerge
     /\ NameUnique(last.args.variables)
     /\ NameUnique(last.args.overwrite_variables)
     /\ last.args.overwrite_parent)
        => LET base == last.args.variables
               over == last.args.overwrite_variables
               NotInBase(x) == x.name \notin NamesOf(base)
               replaced == [i \in 1..Len(base.items) |->
                               IF base.items[i].name \in NamesOf(over)
                               THEN Named(over, base.items[i].name)
                               ELSE base.items[i]]
           IN /\ last.raised = ""
              /\ last.ret = PyList(replaced \o SelectSeq(over.items, NotInBase))

C4_Witness ==
    /\ IsMerge
    /\ last.args.overwrite_parent
    /\ last.args.variables = PyList(<<Variable("a", "1"), Variable("b", "2")>>)
    /\ last.args.overwrite_variables = PyList(<<Variable("b", "1"), Variable("c", "2")>>)
    /\ last.ret = PyList(<<Variable("a", "1"), Variable("b", "1"), Variable("c", "2")>>)

(***************************************************************************)
(* C5.  With overwrite_parent false and name-unique lists, the merge       *)
(* returns every name of the union once, a name of both with base's value, *)
(* in ascending order of name.                                             *)
(***************************************************************************)
C5_ParentPrecedenceSorted ==
    (/\ IsMerge
     /\ NameUnique(last.args.variables)
     /\ NameUnique(last.args.overwrite_variables)
     /\ ~last.args.overwrite_parent)
        => LET base == last.args.variables
               over == last.args.overwrite_variables
               r == last.ret.items
           IN /\ last.raised = ""
              /\ last.ret.type = "list"
              /\ \A i \in 1..(Len(r) - 1) : StrLess(r[i].name, r[i + 1].name)
              /\ {r[i] : i \in 1..Len(r)}
                    = {base.items[i] : i \in 1..Len(base.items)}
                      \cup {x \in {over.items[i] : i \in 1..Len(over.items)} :
                               x.name \notin NamesOf(base)}

C5_Witness ==
    /\ IsMerge
    /\ ~last.args.overwrite_parent
    /\ last.args.variables = PyList(<<Variable("c", "1"), Variable("b", "2")>>)
    /\ last.args.overwrite_variables = PyList(<<Variable("b", "1"), Variable("a", "2")>>)
    /\ last.ret = PyList(<<Variable("a", "2"), Variable("b", "2"), Variable("c", "1")>>)

(***************************************************************************)
(* C6.  Merge identity: with overwrite_parent true, merging the empty list *)
(* with a name-unique X, on either side, returns X in X's order.           *)
(***************************************************************************)
C6_MergeIdentity ==
    (IsMerge /\ last.args.overwrite_parent)
        => /\ (last.args.variables = PyList(<<>>) /\ NameUnique(last.args.overwrite_variables))
                => (last.raised = "" /\ last.ret = last.args.overwrite_variables)
           /\ (last.args.overwrite_variables = PyList(<<>>) /\ NameUnique(last.args.variables))
                => (last.raised = "" /\ last.ret = last.args.variables)

C6_Witness ==
    /\ IsMerge
    /\ last.args.overwrite_parent
    /\ last.args.variables = PyList(<<>>)
    /\ last.args.overwrite_variables = PyList(<<Variable("b", "1"), Variable("a", "2")>>)
    /\ last.ret = last.args.overwrite_variables

(***************************************************************************)
(* C7.  Null rejection: the merge raises ValueError, and returns nothing,  *)
(* when base or override is None, for either value of overwrite_parent.    *)
(***************************************************************************)
C7_NullRejected ==
    (IsMerge /\ (IsNone(last.args.variables) \/ IsNone(last.args.overwrite_variables)))
        => /\ last.raised = "ValueError"
           /\ last.ret = PyNone

C7_Witness ==
    /\ IsMerge
    /\ ~last.args.overwrite_parent
    /\ last.args.variables = PyList(<<Variable("a", "1")>>)
    /\ IsNone(last.args.overwrite_variables)
    /\ last.raised = "ValueError"

(***************************************************************************)
(* C8.  Round trip: after set_variable(n, v, L) at a service-level L,      *)
(* get_variable(n, L) returns v, and get_variable(n, L') returns None at   *)
(* every other valid locator L' that does not store n.                     *)
(***************************************************************************)
C8_RoundTrip ==
    (/\ last.op = "set_variable"
     /\ last.raised = ""
     /\ last.loc \in ValidLocators
     /\ ~IsNone(last.loc[4]))
        => LET n == last.args.name
               Get(l) == ManagerGetVariable(file, "keyword", n, l[1], l[2], l[3], l[4])
           IN /\ Get(last.loc).raised = ""
              /\ Get(last.loc).ret = PyStr(last.args.value)
              /\ \A l \in ValidLocators \ {last.loc} :
                    ~HoldsVariable(DocOf(file), LocatorPath(l), n)
                        => (Get(l).raised = "" /\ Get(l).ret = PyNone)

(***************************************************************************)
(* C9.  Idempotent delete: when n is stored at a valid locator L, deleting *)
(* it returns True, deleting it again returns False without raising, and   *)
(* get_variable(n, L) then returns None.                                   *)
(***************************************************************************)
C9_IdempotentDelete ==
    (/\ last.op = "delete_variable"
     /\ last.loc \in ValidLocators
     /\ HoldsVariable(DocOf(last.before), LocatorPath(last.loc), last.args.name))
        => LET n == last.args.name
               l == last.loc
               second == ManagerDeleteVariable(file, last.style, n, l[1], l[2], l[3], l[4])
               third == ManagerGetVariable(second.file, last.style, n, l[1], l[2], l[3], l[4])
           IN /\ last.raised = "" /\ last.ret = PyBool(TRUE)
              /\ second.raised = "" /\ second.ret = PyBool(FALSE)
              /\ third.raised = "" /\ third.ret = PyNone

C9_Witness ==
    /\ last.op = "delete_variable"
    /\ last.loc = <<A, A, A, A>>
    /\ HoldsVariable(DocOf(last.before), LocatorPath(last.loc), last.args.name)
    /\ last.ret = PyBool(TRUE)
    /\ ~HoldsVariable(DocOf(file), LocatorPath(last.loc), last.args.name)
    /\ NodeExists(DocOf(file), LocatorPath(last.loc))

(***************************************************************************)
(* C10.  Upsert idempotence: after set_variable(n, v, L) under a valid     *)
(* locator, running the same call again ends as the first did and leaves   *)
(* the file exactly as the first call left it.                             *)
(***************************************************************************)
C10_UpsertIdempotent ==
    (last.op = "set_variable" /\ last.loc \in ValidLocators)
        => LET l == last.loc
               again == ManagerSetVariable(file, last.style, last.args.name,
                                           last.args.value, l[1], l[2], l[3], l[4])
           IN /\ again.raised = last.raised
              /\ again.file = file

C10_Witness ==
    /\ last.op = "set_variable"
    /\ last.loc = <<A, A, A, C>>
    /\ last.raised = ""
    /\ file # last.before
    /\ HoldsVariable(DocOf(file), LocatorPath(last.loc), last.args.name)

(***************************************************************************)
(* C11.  Enumeration reflects structure: after a set_variable that         *)
(* returned normally under a valid locator, every name on the locator's    *)
(* path is listed by the enumeration of its parent, and every node of the  *)
(* document was there before or is on the path (none is deeper than the    *)
(* locator); on an empty tree each enumeration along the path lists        *)
(* exactly the one name and the enumeration below the locator is empty.    *)
(***************************************************************************)
\* get_organisations / get_projects / get_environments / get_services of the
\* node at parents.
Enumerate(f, parents) ==
    CASE Len(parents) = 0 -> ManagerGetOrganisations(f)
      [] Len(parents) = 1 -> ManagerGetProjects(f, PyStr(parents[1]))
      [] Len(parents) = 2 ->
            ManagerGetEnvironments(f, "keyword", PyStr(parents[1]), PyStr(parents[2]))
      [] Len(parents) = 3 ->
            ManagerGetServices(f, "keyword", PyStr(parents[1]), PyStr(parents[2]),
                               PyStr(parents[3]))

\* Every path of at most four names.
AllPaths == UNION {[1..k -> AllKeys] : k \in 0..4}

\* The paths of document d that are nodes.
NodesOf(d) == {q \in AllPaths : NodeExists(d, q)}

Listed(r, n) == \E i \in 1..Len(r.ret.items) : r.ret.items[i] = n

C11_EnumerationReflectsStructure ==
    (/\ last.op = "set_variable"
     /\ last.raised = ""
     /\ last.loc \in ValidLocators)
        => LET path == LocatorPath(last.loc)
               d == Len(path)
               empty == DocOf(last.before) = EmptyDict
           IN /\ \A k \in 1..d :
                    LET r == Enumerate(file, SubSeq(path, 1, k - 1))
                    IN /\ r.raised = ""
                       /\ Listed(r, path[k])
                       /\ empty => r.ret = PyList(<<path[k]>>)
              /\ NodesOf(DocOf(file)) \subseteq NodesOf(DocOf(last.before)) \cup Levels(path)
              /\ (empty /\ d < 4) =>
                    (Enumerate(file, path).raised = "" /\ Enumerate(file, path).ret = PyList(<<>>))

C11_Witness ==
    /\ last.op = "set_variable"
    /\ last.raised = ""
    /\ last.loc = <<A, A, None, None>>
    /\ DocOf(last.before) = EmptyDict
    /\ Enumerate(file, <<>>).ret = PyList(<<"a">>)
    /\ Enumerate(file, <<"a">>).ret = PyList(<<"a">>)
    /\ Enumerate(file, <<"a", "a">>).ret = PyList(<<>>)

(***************************************************************************)
(* C12.  get_variables under a valid locator L returns normally, with      *)
(* exactly one Variable per string stored directly at L and nothing for    *)
(* the child nodes of L; the list is empty when L holds no variable, does  *)
(* not exist or holds only child nodes.                                    *)
(***************************************************************************)
\* The variables document d stores directly at path, as a set of Variables.
StoredVariables(d, path) ==
    IF ~NodeExists(d, path) THEN {}
    ELSE {Variable(n, StoredValue(d, path, n)) : n \in {m \in AllKeys : HoldsVariable(d, path, m)}}

ItemsOf(x) == {x.items[i] : i \in 1..Len(x.items)}

C12_GetVariablesExactLevel ==
    (/\ last.op = "get_variables"
     /\ last.style = "keyword"
     /\ last.loc \in ValidLocators)
        => /\ last.raised = ""
           /\ last.ret.type = "list"
           /\ ItemsOf(last.ret) = StoredVariables(DocOf(last.before), LocatorPath(last.loc))
           /\ Len(last.ret.items) = Cardinality(ItemsOf(last.ret))

(***************************************************************************)
(* C13.  delete_variables(names, L) under a valid locator partitions its   *)
(* input: every name of the input list, repeated or not, is in exactly one *)
(* of the lists 'deleted' and 'not_found', and 'deleted' holds exactly the *)
(* names that were stored at L before the call.                            *)
(***************************************************************************)
SeqRange(xs) == {xs[i] : i \in 1..Len(xs)}

C13_DeleteVariablesPartitions ==
    (/\ last.op = "delete_variables"
     /\ last.style = "keyword"
     /\ last.loc \in ValidLocators)
        => /\ last.raised = ""
           /\ LET deleted == SeqRange(DictItem(last.ret, "deleted").items)
                  notFound == SeqRange(DictItem(last.ret, "not_found").items)
                  names == SeqRange(last.args.names)
              IN /\ deleted \cup notFound = names
                 /\ deleted \cap notFound = {}
                 /\ deleted = {n \in names :
                                 HoldsVariable(DocOf(last.before), LocatorPath(last.loc), n)}

(***************************************************************************)
(* C14.  get_projects, get_environments and get_services, given parent     *)
(* names whose chain is not a chain of nodes of the document (a name is    *)
(* missing, or is stored as a variable), return the empty list and do not  *)
(* raise.                                                                  *)
(***************************************************************************)
\* The number of parent names each enumeration takes.
ParentCount(op) ==
    CASE op = "get_projects" -> 1
      [] op = "get_environments" -> 2
      [] op = "get_services" -> 3

C14_UnknownParentsEmpty ==
    (/\ last.op \in {"get_projects", "get_environments", "get_services"}
     /\ Len(LocatorPath(last.loc)) = ParentCount(last.op)
     /\ ~NodeExists(DocOf(last.before), LocatorPath(last.loc)))
        => /\ last.raised = ""
           /\ last.ret = PyList(<<>>)

(***************************************************************************)
(* C17.  For a call whose locator fields are passed by keyword (the        *)
(* fields the wrapper reads), the first failing check determines the       *)
(* error: a field that is neither None nor a str is reported first, the    *)
(* earliest such field in the order organisation, project, environment,    *)
(* service, also when containment is violated; otherwise service without   *)
(* environment, then environment without project, then project without     *)
(* organisation; and no validation error when no check fails.              *)
(***************************************************************************)
FieldNames == <<"organisation", "project", "environment", "service">>

\* A field that is given and is not a string.
NotAString(x) == x.type \notin {"NoneType", "str"}

SomeNotAString(l) == \E i \in 1..4 : NotAString(l[i])

C17_ValidationOrder ==
    (last.op \in HierarchyOps /\ last.style = "keyword")
        => LET l == last.loc
               given(i) == l[i].type # "NoneType"
           IN IF SomeNotAString(l)
              THEN LET i == CHOOSE j \in 1..4 :
                                /\ NotAString(l[j])
                                /\ \A k \in 1..(j - 1) : ~NotAString(l[k])
                   IN /\ last.raised = "ValueError"
                      /\ last.msg = <<FieldNames[i], " must be a string, got ", l[i].type>>
              ELSE IF given(4) /\ ~given(3)
              THEN /\ last.raised = "ValueError"
                   /\ last.msg = <<"service requires environment to be specified">>
              ELSE IF given(3) /\ ~given(2)
              THEN /\ last.raised = "ValueError"
                   /\ last.msg = <<"environment requires project to be specified">>
              ELSE IF given(2) /\ ~given(1)
              THEN /\ last.raised = "ValueError"
                   /\ last.msg = <<"project requires organisation to be specified">>
              ELSE last.raised # "ValueError" /\ last.msg = <<>>

C17_Witness ==
    /\ last.op = "set_variable"
    /\ last.style = "keyword"
    /\ last.loc = <<PyInt(5), None, None, A>>
    /\ last.raised = "ValueError"
    /\ last.msg = <<"organisation", " must be a string, got ", "int">>
    /\ last.calls = <<>>

(***************************************************************************)
(* C18.  As claimed: a locator field that is neither None nor a str makes  *)
(* the operation fail with a TypeError whose message names the field and   *)
(* the type of its value.                                                  *)
(***************************************************************************)
\* The message names a field of l that is not a string, and that value's type.
NamesFieldAndType(msg, l) ==
    /\ Len(msg) = 3
    /\ \E i \in 1..4 :
          /\ NotAString(l[i])
          /\ msg[1] = FieldNames[i]
          /\ msg[3] = l[i].type

ReadOps ==
    {"get_variable", "get_variables", "get_variables_as_dict",
     "get_organisations", "get_projects", "get_environments", "get_services",
     "get_root_variables"} \cup EffectiveOps

\* The call recorded in c, made on file f.
CallOn(c, f) ==
    LET l == c.loc
        a == c.args
    IN CASE c.op = "set_variable" ->
              ManagerSetVariable(f, c.style, a.name, a.value, l[1], l[2], l[3], l[4])
         [] c.op = "set_variables" ->
              ManagerSetVariables(f, c.style, a.variables, l[1], l[2], l[3], l[4])
         [] c.op = "get_variable" ->
              ManagerGetVariable(f, c.style, a.name, l[1], l[2], l[3], l[4])
         [] c.op = "get_variables" -> ManagerGetVariables(f, c.style, l[1], l[2], l[3], l[4])
         [] c.op = "get_variables_as_dict" ->
              ManagerGetVariablesAsDict(f, c.style, l[1], l[2], l[3], l[4])
         [] c.op = "delete_variable" ->
              ManagerDeleteVariable(f, c.style, a.name, l[1], l[2], l[3], l[4])
         [] c.op = "delete_variables" ->
              ManagerDeleteVariables(f, c.style, a.names, l[1], l[2], l[3], l[4])
         [] c.op = "get_organisations" -> ManagerGetOrganisations(f)
         [] c.op = "get_projects" -> ManagerGetProjects(f, l[1])
         [] c.op = "get_environments" -> ManagerGetEnvironments(f, c.style, l[1], l[2])
         [] c.op = "get_services" -> ManagerGetServices(f, c.style, l[1], l[2], l[3])
         [] c.op = "get_root_variables" -> ManagerGetRootVariables(f)
         [] c.op = "get_organisation_variables" ->
              ManagerGetOrganisationVariables(f, l[1], a.include_parent, a.overwrite_parent)
         [] c.op = "get_project_variables" ->
              ManagerGetProjectVariables(f, l[1], l[2], a.include_parent, a.overwrite_parent)
         [] c.op = "get_environment_variables" ->
              ManagerGetEnvironmentVariables(f, l[1], l[2], l[3],
                                             a.include_parent, a.overwrite_parent)
         [] c.op = "get_service_variables" ->
              ManagerGetServiceVariables(f, l[1], l[2], l[3], l[4],
                                         a.include_parent, a.overwrite_parent)

EmptyTreeFiles == {MissingFile, FileWith(<<>>)}

C19_MissingAndEmptyFileAreEmptyTree ==
    (last.op # "none" /\ last.before \in EmptyTreeFiles)
        => LET twin == CallOn(last, SaveData(EmptyDict))
           IN /\ (/\ last.op \in ReadOps
                  /\ Contained(last.loc)
                  /\ ~SomeNotAString(last.loc))
                     => /\ last.raised = ""
                        /\ last.ret \in {PyNone, PyList(<<>>), EmptyDict}
              /\ twin.raised = last.raised
              /\ twin.msg = last.msg
              /\ twin.ret = last.ret
              /\ \/ twin.file = file
                 \/ file = last.before /\ twin.file = SaveData(EmptyDict)

(***************************************************************************)
(* C20.  As claimed: get_variables_as_dict returns the name-to-value map   *)
(* of the list the adapter returned for L, and raises an error when that   *)
(* list holds two variables with the same name.                            *)
(***************************************************************************)
\* The list the adapter returned holds a name twice.
RepeatsAName(xs) == \E i, j \in 1..Len(xs) : i # j /\ xs[i].name = xs[j].name

\* m maps exactly the names of xs, each once, each to the value of its last
\* occurrence in xs.
MapsToLastValues(m, xs) ==
    /\ m.type = "dict"
    /\ {m.items[i].key : i \in 1..Len(m.items)} = {xs[i].name : i \in 1..Len(xs)}
    /\ \A i, j \in 1..Len(m.items) : m.items[i].key = m.items[j].key => i = j
    /\ \A i \in 1..Len(xs) :
          (\A j \in (i + 1)..Len(xs) : xs[j].name # xs[i].name)
              => DictItem(m, xs[i].name) = PyStr(xs[i].value)

C20_DuplicateNamesRaise ==
    (last.op = "get_variables_as_dict" /\ last.args.got.raised = "")
        => LET xs == last.args.got.ret.items
           IN IF RepeatsAName(xs)
              THEN last.raised # ""
              ELSE last.raised = "" /\ MapsToLastValues(last.ret, xs)

(***************************************************************************)
(* C20, amended.  get_variables_as_dict returns the name-to-value map of   *)
(* the list the adapter returned for L and raises only what the adapter    *)
(* raised; when the list holds two variables with the same name it raises  *)
(* nothing and the map carries the value of the last of them.              *)
(***************************************************************************)
C20_LastDuplicateWins ==
    (last.op = "get_variables_as_dict")
        => IF last.args.got.raised # ""
           THEN last.raised = last.args.got.raised
           ELSE /\ last.raised = ""
                /\ MapsToLastValues(last.ret, last.args.got.ret.items)

C20_Witness ==
    /\ last.op = "get_variables_as_dict"
    /\ last.args.got.ret = PyList(<<Variable("a", "1"), Variable("a", "2")>>)
    /\ last.raised = ""
    /\ last.ret = PyDict(<<Entry("a", PyStr("2"))>>)

(***************************************************************************)
(* C15.  Lost update: when callers A and B both save, B loaded before A    *)
(* opened the file for writing and B opened it after A had closed it, the  *)
(* final document is exactly the one B built in memory, which is what B's  *)
(* call alone makes of the document A overwrote: A's change is lost, also  *)
(* when the two calls touch different names or levels.                     *)
(***************************************************************************)
\* The adapter call, run to completion on file f.
AdapterApply(call, f) ==
    LET l == call.loc
    IN IF call.op = "set_variable"
       THEN AdapterSetVariable(f, call.name, call.value, l[1], l[2], l[3], l[4])
       ELSE AdapterDeleteVariable(f, call.name, l[1], l[2], l[3], l[4])

\* Both have saved; b loaded before a's overwrite and overwrote after it.
LoadedBeforeSavedAfter(a, b) ==
    /\ a # b
    /\ callers[a].pc = "done" /\ callers[a].saves
    /\ callers[b].pc = "done" /\ callers[b].saves
    /\ callers[b].peerAtLoad.pc \in {"idle", "loaded"}
    /\ callers[b].peerAtOpen = "done"

C15_LastWriteWins ==
    \A a, b \in DOMAIN callers :
        LoadedBeforeSavedAfter(a, b)
            => /\ file = SaveData(callers[b].data)
               /\ file = AdapterApply(callers[b].call, callers[a].prev).file
               /\ nops = 2

C15_Witness ==
    /\ LoadedBeforeSavedAfter("A", "B")
    /\ callers["A"].call = [op |-> "set_variable", name |-> "a", value |-> "v",
                            loc |-> <<C, None, None, None>>]
    /\ callers["B"].call = [op |-> "set_variable", name |-> "b", value |-> "v",
                            loc |-> <<None, None, None, None>>]
    /\ callers["A"].from = MissingFile
    /\ HoldsVariable(callers["A"].data, <<"c">>, "a")
    /\ DocOf(file) = PyDict(<<Entry("b", PyStr("v"))>>)

(***************************************************************************)
(* C16.  No partial write: a load made by one caller while the other is    *)
(* saving (has opened the file for writing and not yet closed it) does not *)
(* raise and yields either the complete document as it was before that     *)
(* save or the complete document being saved, never an empty or truncated  *)
(* one.                                                                    *)
(***************************************************************************)
C16_NoPartialWrite ==
    \A c \in DOMAIN callers :
        (callers[c].pc # "idle" /\ callers[c].peerAtLoad.pc = "writing")
            => LET seen == LoadData(callers[c].from)
                   peer == callers[c].peerAtLoad
               IN /\ seen.raised = ""
                  /\ seen.val \in {DocOf(peer.prev), peer.data}

(***************************************************************************)
(* C21.  After any set or delete operation, the enumeration of the         *)
(* children of every node of the document lists exactly the child names    *)
(* that hold a variable directly or have a descendant level that holds     *)
(* one.                                                                    *)
(***************************************************************************)
MutatingOps == {"set_variable", "set_variables", "delete_variable", "delete_variables"}

\* Some level at or below path stores a variable.
HoldsVariablesBelow(d, path) ==
    \E q \in NodesOf(d) :
        /\ Len(q) >= Len(path)
        /\ SubSeq(q, 1, Len(path)) = path
        /\ \E n \in AllKeys : HoldsVariable(d, q, n)

C21_EnumerationListsNonEmptyChildren ==
    (last.op \in MutatingOps /\ last.raised = "")
        => \A q \in NodesOf(DocOf(file)) :
              Len(q) < 4
                  => LET r == Enumerate(file, q)
                     IN /\ r.raised = ""
                        /\ SeqRange(r.ret.items) =
                              {n \in AllKeys : HoldsVariablesBelow(DocOf(file), Append(q, n))}

(***************************************************************************)
(* C22.  Nodes are only ever added: after a set or delete operation under  *)
(* a valid locator every node of the document before the call is still a   *)
(* node (a mapping, possibly empty) of the document after it, and after a  *)
(* set_variable that returned normally every level of its locator's path   *)
(* is a node.                                                              *)
(***************************************************************************)
C22_NodesNeverRemoved ==
    (last.op \in MutatingOps /\ last.loc \in ValidLocators)
        => /\ NodesOf(DocOf(last.before)) \subseteq NodesOf(DocOf(file))
           /\ (last.op = "set_variable" /\ last.raised = "")
                 => Levels(LocatorPath(last.loc)) \subseteq NodesOf(DocOf(file))

(***************************************************************************)
(* C23.  set_variable(name, value, L) under a valid locator changes only   *)
(* the entry name at L: it stores value there, and every other variable    *)
(* at L or at any other level, and every child subtree of L, is after the  *)
(* call as it was before, also when name is the name of a child node of L. *)
(***************************************************************************)
\* The value document d stores for n at path, None when it stores none.
VariableAt(d, path, n) ==
    IF HoldsVariable(d, path, n) THEN PyStr(StoredValue(d, path, n)) ELSE PyNone

\* The child nodes of the node at path, [] when path is no node.
ChildSubtrees(d, path) ==
    IF ~NodeExists(d, path) THEN {}
    ELSE {e \in SeqRange(NodeAt(d, path).items) : e.val.type = "dict"}

C23_SetChangesOnlyItsEntry ==
    (last.op = "set_variable" /\ last.loc \in ValidLocators)
        => LET before == DocOf(last.before)
               after == DocOf(file)
               path == LocatorPath(last.loc)
           IN /\ last.raised = ""
              /\ VariableAt(after, path, last.args.name) = PyStr(last.args.value)
              /\ \A q \in AllPaths, n \in AllKeys :
                    (q # path \/ n # last.args.name)
                        => VariableAt(after, q, n) = VariableAt(before, q, n)
              /\ ChildSubtrees(before, path) \subseteq ChildSubtrees(after, path)
              /\ Levels(path) \subseteq NodesOf(after)

(***************************************************************************)
(* C24.  delete_variable(name, L) under a valid locator removes at most    *)
(* the variable name stored at L: every other variable, at L or at any     *)
(* ancestor or descendant level, and every child subtree of L is after     *)
(* the call as it was before, also when name is the name of a child node   *)
(* of L; when it returns False the file is the file of before.             *)
(***************************************************************************)
C24_DeleteRemovesOnlyItsEntry ==
    (last.op = "delete_variable" /\ last.loc \in ValidLocators)
        => LET before == DocOf(last.before)
               after == DocOf(file)
               path == LocatorPath(last.loc)
           IN /\ last.raised = ""
              /\ VariableAt(after, path, last.args.name)
                    \in {PyNone, VariableAt(before, path, last.args.name)}
              /\ \A q \in AllPaths, n \in AllKeys :
                    (q # path \/ n # last.args.name)
                        => VariableAt(after, q, n) = VariableAt(before, q, n)
              /\ ChildSubtrees(before, path) \subseteq ChildSubtrees(after, path)
              /\ last.ret = PyBool(FALSE) => file = last.before

(***************************************************************************)
(* C25.  With include_parent=False an effective-view query reads only the  *)
(* exact level of its locator, with one get_variables call, and returns    *)
(* exactly the variables stored there: in stored order when                *)
(* overwrite_parent=True and sorted by name when overwrite_parent=False.   *)
(***************************************************************************)
IsVariableEntry(e) == e.val.type = "str"

VariableOfEntry(e) == Variable(e.key, e.val.s)

\* The variables document d stores at path, in the order it stores them.
StoredOrder(d, path) ==
    IF ~NodeExists(d, path) THEN <<>>
    ELSE LET kept == SelectSeq(NodeAt(d, path).items, IsVariableEntry)
         IN [i \in 1..Len(kept) |-> VariableOfEntry(kept[i])]

NameOrdered(vs) ==
    \A i, j \in 1..Len(vs) : i < j => StrLess(vs[i].name, vs[j].name)

C25_ExactLevelWithoutParent ==
    (last.op \in EffectiveOps /\ ~last.args.include_parent)
        => LET stored == StoredOrder(DocOf(last.before), LocatorPath(last.loc))
           IN /\ last.raised = ""
              /\ Len(last.calls) = 1
              /\ last.calls[1].method = "get_variables"
              /\ last.ret.type = "list"
              /\ IF last.args.overwrite_parent
                 THEN last.ret.items = stored
                 ELSE /\ SeqRange(last.ret.items) = SeqRange(stored)
                      /\ Len(last.ret.items) = Len(stored)
                      /\ NameOrdered(last.ret.items)

(***************************************************************************)
(* JsonFileAdapter.set_variables step by step: caller A runs the loop,     *)
(* one set_variable (a load and an overwrite of the file) per iteration,   *)
(* while caller B may load the document between any two iterations.        *)
(***************************************************************************)
BatchLists == {b.items : b \in {x \in Batches : x.type = "list"}}

InitBatch ==
    /\ file \in InitialFiles
    /\ last = NoCall
    /\ nops = 0
    /\ callers = [c \in Callers |-> Idle]

\* set_variables is entered: nothing is loaded or stored yet.
BatchStarts ==
    /\ callers["A"].pc = "idle"
    /\ \E variables \in BatchLists, l \in ValidLocators :
           callers' = [callers EXCEPT !["A"] =
               [pc |-> "looping", variables |-> variables, loc |-> l,
                from |-> file, stored |-> 0, raised |-> ""]]
    /\ UNCHANGED <<file, last, nops>>

\* One iteration of the loop: self.set_variable(variable.name, ...).
BatchSetsNext ==
    /\ callers["A"].pc = "looping"
    /\ callers["A"].stored < Len(callers["A"].variables)
    /\ LET w == callers["A"]
           v == w.variables[w.stored + 1]
           l == w.loc
           r == AdapterSetVariable(file, v.name, v.value, l[1], l[2], l[3], l[4])
       IN IF r.raised # ""
          THEN /\ callers' = [callers EXCEPT !["A"].pc = "done",
                                             !["A"].raised = r.raised]
               /\ UNCHANGED file
          ELSE /\ callers' = [callers EXCEPT !["A"].stored = w.stored + 1]
               /\ file' = r.file
    /\ UNCHANGED <<last, nops>>

\* The list is exhausted: set_variables returns None.
BatchReturns ==
    /\ callers["A"].pc = "looping"
    /\ callers["A"].stored = Len(callers["A"].variables)
    /\ callers' = [callers EXCEPT !["A"].pc = "done"]
    /\ UNCHANGED <<file, last, nops>>

\* Another caller's operation loads the document.
OtherCallerLoads ==
    /\ callers["A"].pc # "idle"
    /\ callers' = [callers EXCEPT !["B"] =
           [pc |-> "read", data |-> LoadData(file),
            during |-> callers["A"].pc, stored |-> callers["A"].stored]]
    /\ UNCHANGED <<file, last, nops>>

NextBatch ==
    \/ BatchStarts
    \/ BatchSetsNext
    \/ BatchReturns
    \/ OtherCallerLoads

SpecBatch == InitBatch /\ [][NextBatch]_vars

(***************************************************************************)
(* C26.  JsonFileAdapter.set_variables(vs, L) has the final effect of one  *)
(* set_variable call per element of vs in list order: an empty list        *)
(* leaves the file, or its absence, as it was; a name repeated in vs ends  *)
(* with its last value; names not in vs keep what they held; and what      *)
(* another caller loads while the call runs is the document in which a     *)
(* prefix of vs has been stored.                                           *)
(***************************************************************************)
\* The value of the last element of vs named n, None when there is none.
LastValueOf(vs, n) ==
    LET at == {i \in 1..Len(vs) : vs[i].name = n}
    IN IF at = {} THEN PyNone
       ELSE PyStr(vs[CHOOSE i \in at : \A j \in at : j <= i].value)

\* The file after set_variables(vs, L) on file f.
AfterBatch(f, vs, l) == AdapterSetVariables(f, vs, l[1], l[2], l[3], l[4])

C26_SetVariablesIsSetVariableEach ==
    callers["A"].pc # "idle"
        => LET w == callers["A"]
               path == LocatorPath(w.loc)
               prefix == SubSeq(w.variables, 1, w.stored)
           IN /\ w.pc = "done"
                    => /\ AfterBatch(w.from, w.variables, w.loc).file = file
                       /\ AfterBatch(w.from, w.variables, w.loc).raised = w.raised
                       /\ w.raised = "" => w.stored = Len(w.variables)
              /\ w.variables = <<>> => file = w.from
              /\ \A n \in AllKeys :
                    VariableAt(DocOf(file), path, n) =
                        IF LastValueOf(prefix, n) # PyNone THEN LastValueOf(prefix, n)
                        ELSE VariableAt(DocOf(w.from), path, n)
              /\ callers["B"].pc = "read"
                    => \E k \in 0..Len(w.variables) :
                          callers["B"].data =
                              LoadData(AfterBatch(w.from, SubSeq(w.variables, 1, k), w.loc).file)

\* B loaded the document when only the first of two variables was stored.
C26_Witness ==
    /\ callers["A"].pc = "done"
    /\ callers["A"].raised = ""
    /\ callers["A"].from = MissingFile
    /\ callers["A"].variables = <<Variable("b", "v"), Variable("a", "ab")>>
    /\ callers["A"].loc = <<C, None, None, None>>
    /\ callers["B"].pc = "read"
    /\ callers["B"].during = "looping"
    /\ callers["B"].stored = 1
    /\ callers["B"].data.val = PyDict(<<Entry("c", PyDict(<<Entry("b", PyStr("v"))>>))>>)
    /\ file = SaveData(PyDict(<<Entry("c",
                  PyDict(<<Entry("b", PyStr("v")), Entry("a", PyStr("ab"))>>))>>))

(***************************************************************************)
(* C27.  For a valid locator passed by keyword, set_variable,              *)
(* get_variable, get_variables, delete_variable and delete_variables call  *)
(* the adapter method of the same name exactly once, with the same name,   *)
(* value and locator, and return (or raise) what it returns (or raises);   *)
(* set_variables given a name-to-value mapping passes the adapter the      *)
(* list of Variables in the mapping's order.                               *)
(***************************************************************************)
ExactLevelOps ==
    {"set_variable", "set_variables", "get_variable", "get_variables",
     "delete_variable", "delete_variables"}

\* The Variables of a call's `variables` argument, in its order.
VariablesInOrder(x) ==
    IF x.type = "dict"
    THEN [i \in 1..Len(x.items) |-> Variable(x.items[i].key, x.items[i].val.s)]
    ELSE x.items

\* The arguments of call c before the locator.
LeadingArgs(c) ==
    CASE c.op = "set_variable" -> <<c.args.name, c.args.value>>
      [] c.op = "set_variables" -> <<VariablesInOrder(c.args.variables)>>
      [] c.op \in {"get_variable", "delete_variable"} -> <<c.args.name>>
      [] c.op = "get_variables" -> <<>>
      [] c.op = "delete_variables" -> <<c.args.names>>

\* The adapter method named as call c, on the file before the call.
AdapterAnswer(c) ==
    LET l == c.loc
        f == c.before
    IN CASE c.op = "set_variable" ->
              AdapterSetVariable(f, c.args.name, c.args.value, l[1], l[2], l[3], l[4])
         [] c.op = "set_variables" ->
              AdapterSetVariables(f, VariablesInOrder(c.args.variables), l[1], l[2], l[3], l[4])
         [] c.op = "get_variable" ->
              AdapterGetVariable(f, c.args.name, l[1], l[2], l[3], l[4])
         [] c.op = "get_variables" ->
              AdapterGetVariables(f, l[1], l[2], l[3], l[4])
         [] c.op = "delete_variable" ->
              AdapterDeleteVariable(f, c.args.name, l[1], l[2], l[3], l[4])
         [] c.op = "delete_variables" ->
              AdapterDeleteVariables(f, c.args.names, l[1], l[2], l[3], l[4])

C27_ThinPassThrough ==
    (/\ last.op \in ExactLevelOps
     /\ last.style = "keyword"
     /\ last.loc \in ValidLocators)
        => /\ last.calls = <<AdapterCall(last.op, LeadingArgs(last) \o last.loc)>>
           /\ last.raised = AdapterAnswer(last).raised
           /\ last.ret = AdapterAnswer(last).ret
           /\ file = AdapterAnswer(last).file

\* set_variables given {"a": "ab", "b": "v"} under organisation "c".
C27_Witness ==
    /\ last.op = "set_variables"
    /\ last.style = "keyword"
    /\ last.loc = <<C, None, None, None>>
    /\ last.args.variables.type = "dict"
    /\ last.raised = ""
    /\ last.calls[1].args[1] = <<Variable("a", "ab"), Variable("b", "v")>>

(***************************************************************************)
(* C28.  Two callers each issue delete_variable for the same name at the   *)
(* same locator, with no set between them.                                 *)
(***************************************************************************)
\* Both callers have finished a delete_variable of one name at one locator.
BothDeleted(a, b) ==
    /\ a # b
    /\ callers[a].pc = "done" /\ callers[a].call.op = "delete_variable"
    /\ callers[b].pc = "done" /\ callers[b].call.op = "delete_variable"
    /\ callers[a].call.name = callers[b].call.name
    /\ callers[a].call.loc = callers[b].call.loc

ReportsRemoval(c) == callers[c].raised = "" /\ callers[c].ret = PyBool(TRUE)

\* C28 as stated: at most one of the concurrent delete_variable calls for a
\* variable returns True.
C28_AtMostOneDeleteReportsRemoval ==
    \A a, b \in DOMAIN callers :
        BothDeleted(a, b) => ~(ReportsRemoval(a) /\ ReportsRemoval(b))

\* b loaded the document after a had loaded it and before a opened the
\* file to overwrite it.
LoadedInsideCycle(a, b) == callers[b].peerAtLoad.pc = "loaded"

\* C28 as the code has it: at most one of the calls returns True unless one
\* call loads the document inside the other's load-and-overwrite cycle,
\* before the overwrite has begun; then both return True.
C28_OneRemovalUnlessLoadsOverlap ==
    \A a, b \in DOMAIN callers :
        BothDeleted(a, b)
            => ((ReportsRemoval(a) /\ ReportsRemoval(b))
                    <=> (LoadedInsideCycle(a, b) \/ LoadedInsideCycle(b, a)))

\* A removed "b" under organisation "c" and returned; B then found nothing.
C28_Witness ==
    /\ BothDeleted("A", "B")
    /\ callers["A"].call.name = "b"
    /\ callers["A"].call.loc = <<C, None, None, None>>
    /\ callers["B"].peerAtLoad.pc = "done"
    /\ ReportsRemoval("A")
    /\ callers["B"].ret = PyBool(FALSE)

(***************************************************************************)
(* C29.  get_variable(name, L) under a valid locator never raises and      *)
(* returns the string stored for name at L, or None when L stores no       *)
(* variable of that name: also when name is the name of a child node of L  *)
(* and when a name on L's path is stored as a variable, not as a node.     *)
(***************************************************************************)
C29_GetReturnsStringOrAbsent ==
    (last.op = "get_variable" /\ last.loc \in ValidLocators)
        => /\ last.raised = ""
           /\ last.ret.type \in {"str", "NoneType"}
           /\ last.ret = VariableAt(DocOf(last.before), LocatorPath(last.loc),
                                    last.args.name)

(***************************************************************************)
(* C30.  Read operations never write: after get_variable, get_variables,   *)
(* get_variables_as_dict, an enumeration or an effective-view query,       *)
(* whether it returned or raised, the file has the content it had before   *)
(* the call and exists exactly if it existed before.                       *)
(***************************************************************************)
C30_ReadsNeverWrite ==
    last.op \in ReadOps
        => /\ file.exists = last.before.exists
           /\ file.content = last.before.content

\* get_variable on a missing file returned None and the file is still missing.
C30_Witness ==
    /\ last.op = "get_variable"
    /\ last.loc = <<C, None, None, None>>
    /\ last.raised = ""
    /\ last.ret = PyNone
    /\ ~last.before.exists
    /\ ~file.exists

====
